---- MODULE Spec2Model ----
(***************************************************************************)
(* Model of lfs.py, the Live For Speed RAF reader (Python 2): the parse    *)
(* Replay.from_file makes over a byte stream, one step per read of the     *)
(* file object, with StaticWheelInfo.from_file, DataBlock.from_file and    *)
(* DynamicWheelInfo.from_file as the steps of its two loops.               *)
(*                                                                         *)
(* The stream has a fixed length, chosen in Init; the bytes of a field are *)
(* chosen when the parse first reads them (the parse is a single forward   *)
(* pass, so this is the same as a stream fixed in advance) and are kept in *)
(* "stream" next to the value the parse made of them.  Float payloads are  *)
(* consumed but not kept: no step of the parse looks at them.              *)
(***************************************************************************)
EXTENDS Integers, Sequences, FiniteSets, TLC

VARIABLES
    stream,   \* the file object's bytes: its length and the field bytes read so far
    pos,      \* the file object's cursor
    pc,       \* the statement of Replay.from_file to run next
    err,      \* the exception that left from_file, if any
    replay,   \* the Replay instance under construction (the value returned)
    header,   \* the locals header_size .. num_blocks
    block     \* the local DataBlock of the sample loop

vars == <<stream, pos, pc, err, replay, header, block>>

(***************************** bounds *************************************)

MaxWheels == 2
MaxBlocks == 2

(************************* the data type widths ***************************)

CHAR == 1
BYTE == 1
WORD == 2
INT == 4
FLOAT == 4
SHORT == 2

(*************************** Python values ********************************)

None == [t |-> "None", v |-> 0]
PyInt(n) == [t |-> "int", v |-> n]
PyBool(b) == [t |-> "bool", v |-> IF b THEN 1 ELSE 0]
PyStr(s) == [t |-> "str", v |-> s]

\* a == b on None, bool and int: bool is an int (True == 1), None equals only None
PyEq(a, b) ==
    IF a.t = "None" \/ b.t = "None" THEN a.t = b.t ELSE a.v = b.v

Min(a, b) == IF a <= b THEN a ELSE b
Max(a, b) == IF a >= b THEN a ELSE b

Rep(c, n) == [i \in 1..n |-> c]

\* s.find(ch): the lowest 0-based index of ch in s, or -1
Find(s, ch) ==
    IF \E i \in 1..Len(s) : s[i] = ch
    THEN (CHOOSE i \in 1..Len(s) : s[i] = ch /\ \A j \in 1..(i - 1) : s[j] # ch) - 1
    ELSE -1

\* (the slice left out: x[:k] taken as x)
SliceAll(s, k) == s

\* s[:k] with k as the code passes it: the first k items (SubSeq(s, 1, k)),
\* with a negative k counted from the end and the result clipped to s
PySlice(s, k) ==
    LET stop == IF k < 0 THEN Max(Len(s) + k, 0) ELSE Min(k, Len(s))
    IN  SubSeq(s, 1, stop)

\* x = x[:x.find('\x00')]
NullTruncate(s) == PySlice(s, Find(s, 0))

(***************************** struct *************************************)

\* the size of one format character under '<' or '>' (standard sizes, no padding)
TypeSize(c) ==
    CASE c \in {"c", "b", "B", "x"} -> 1
      [] c \in {"h", "H"} -> 2
      [] c \in {"i", "I", "f"} -> 4

RECURSIVE CalcSize(_)
CalcSize(fmt) ==
    IF fmt = <<>> THEN 0 ELSE TypeSize(Head(fmt)) + CalcSize(Tail(fmt))

\* '<H', '<I' of little-endian bytes
RECURSIVE UnsignedLE(_)
UnsignedLE(bytes) ==
    IF bytes = <<>> THEN 0 ELSE Head(bytes) + 256 * UnsignedLE(Tail(bytes))

\* '<i' of four little-endian bytes (two's complement)
SignedLE32(bytes) ==
    UnsignedLE(SubSeq(bytes, 1, 3))
      + 16777216 * (IF bytes[4] >= 128 THEN bytes[4] - 256 ELSE bytes[4])

(************************ names and exceptions ****************************)

\* the names lfs.py binds at module level
ModuleNames ==
    {"struct", "math", "StaticWheelInfo", "DynamicWheelInfo", "DataBlock",
     "Replay", "CHAR", "BYTE", "WORD", "INT", "FLOAT", "SHORT"}

\* the exception "raise <name>(...)" leaves with: evaluating a name that is
\* bound nowhere raises NameError before anything is constructed
Raise(name) == IF name \in ModuleNames THEN name ELSE "NameError"

NoError == [type |-> "none", at |-> "none"]

(************************ the formats and the reads ***********************)

FmtSignature == Rep("c", 6)
FmtVersion == <<"B", "B">>
FmtSizes == <<"H", "H", "H", "H", "I">>
FmtFloat == <<"f">>
FmtFlags == Rep("B", 4)
FmtSplits == Rep("i", 4)
FmtMasses == Rep("f", 5)
FmtNumGears == <<"B">>
FmtGearRatios == Rep("f", 7)
FmtStaticWheel ==
    Rep("f", 6) \o Rep("x", 5) \o <<"B">> \o Rep("x", 2) \o Rep("f", 4)
FmtDynamicWheel == Rep("f", 7) \o <<"b", "b", "x", "x">>
FmtDataBlock ==
    Rep("f", 5) \o Rep("b", 4) \o Rep("f", 2) \o Rep("i", 3) \o Rep("f", 2)
      \o Rep("h", 6)

\* the widths of the fixed-width string fields
StringWidth ==
    [short_track_name |-> 4, player |-> 32, car |-> 32, track |-> 32,
     config |-> 16, weather |-> 16, lfs_version |-> 8]

StringFields == DOMAIN StringWidth

\* the size DataBlock.from_file asks of f.read
\* (a read of one float more)
DataBlockReadSizeWide == (10 * FLOAT) + BYTE + (3 * CHAR) + (3 * INT) + (6 * SHORT)
DataBlockReadSize == (9 * FLOAT) + BYTE + (3 * CHAR) + (3 * INT) + (6 * SHORT)

\* the number of bytes the statement at label asks of f.read (0: it reads nothing)
ReadSize(label) ==
    CASE label = "signature" -> 6 * CHAR
      [] label \in {"game_version", "version", "reserved"} -> 2 * BYTE
      [] label = "sizes" -> 4 * WORD + INT
      [] label \in StringFields -> StringWidth[label] * CHAR
      [] label = "track_ruler_length" -> FLOAT
      [] label = "flags" -> 4 * BYTE
      [] label = "splits" -> 4 * INT
      [] label = "masses" -> 5 * FLOAT
      [] label = "num_gears" -> BYTE
      [] label = "reserved3" -> 3 * BYTE
      [] label = "gear_ratios" -> 7 * FLOAT
      [] label = "padding" -> 272 * BYTE
      [] label = "static_wheel" -> (6 * FLOAT) + (8 * BYTE) + (4 * FLOAT)
      [] label = "static_wheel_pad" -> 80 * BYTE
      [] label = "data_block" -> DataBlockReadSize
      [] label = "dynamic_wheel" -> (7 * FLOAT) + (4 * BYTE)
      [] OTHER -> 0

\* the format the statement at label hands to struct.unpack
Format(label) ==
    CASE label = "signature" -> FmtSignature
      [] label = "version" -> FmtVersion
      [] label = "sizes" -> FmtSizes
      [] label \in StringFields -> Rep("c", StringWidth[label])
      [] label = "track_ruler_length" -> FmtFloat
      [] label = "flags" -> FmtFlags
      [] label = "splits" -> FmtSplits
      [] label = "masses" -> FmtMasses
      [] label = "num_gears" -> FmtNumGears
      [] label = "gear_ratios" -> FmtGearRatios
      [] label = "static_wheel" -> FmtStaticWheel
      [] label = "data_block" -> FmtDataBlock
      [] label = "dynamic_wheel" -> FmtDynamicWheel

\* the bytes left in the stream, and what f.read(n) returns of them: a file
\* object's read returns fewer than n bytes at the end of the file, and raises nothing
Remaining == stream.len - pos
Got(label) == Min(ReadSize(label), Remaining)

\* struct.unpack(fmt, buf) raises struct.error unless len(buf) is the format's size
Unpacks(label) == Got(label) = CalcSize(Format(label))

\* the reads of Replay.from_file before its loops, in the order it makes them
HeaderSteps ==
    <<"signature", "game_version", "version", "reserved", "sizes",
      "short_track_name", "track_ruler_length", "player", "car", "track",
      "config", "weather", "lfs_version", "flags", "splits", "masses",
      "num_gears", "reserved3", "gear_ratios", "padding">>

RECURSIVE SumSizes(_)
SumSizes(steps) ==
    IF steps = <<>> THEN 0 ELSE ReadSize(Head(steps)) + SumSizes(Tail(steps))

\* the statement after the header read at label
After(label) ==
    HeaderSteps[(CHOOSE i \in 1..Len(HeaderSteps) : HeaderSteps[i] = label) + 1]

(***************************** the inputs *********************************)

\* v as n little-endian bytes (v >= 0)
RECURSIVE ToLE(_, _)
ToLE(v, n) == IF n = 0 THEN <<>> ELSE <<v % 256>> \o ToLE(v \div 256, n - 1)

LFSRAF == <<76, 70, 83, 82, 65, 70>>
Signatures == {LFSRAF, <<76, 70, 83, 82, 65, 86>>}
Versions == {0, 1, 2, 3}
UpdateIntervals == {10}

\* header_size, block_size, wheel_block_size, wheel_block_offset
SizeFields == {<<512, 192, 32, 64>>, <<0, 0, 0, 0>>}

SizesBytes ==
    {ToLE(s[1], 2) \o ToLE(s[2], 2) \o ToLE(s[3], 2) \o ToLE(s[4], 2) \o ToLE(n, 4) :
        s \in SizeFields, n \in 0..MaxBlocks}

\* the n bytes of a string field with fill leading characters: no null byte in
\* them when fill >= n, else a null byte after the first fill characters and
\* further null bytes among what follows
Fills == {0, 4, 32}
RawString(n, fill) ==
    [i \in 1..n |->
        IF i <= fill THEN 65 + (i % 3)
        ELSE IF (i - fill) % 2 = 1 THEN 0 ELSE 66]

PlayerFlags == {1, 64}
HlvcCodes == {0, 1, 2, 3}
SplitCounts == {0, 3, 4, 5}
FlagsBytes ==
    {<<pf, nw, h, ns>> :
        pf \in PlayerFlags, nw \in 0..MaxWheels, h \in HlvcCodes, ns \in SplitCounts}

NumGears == {6}

SplitsBytes ==
    {ToLE(61000, 4) \o ToLE(122000, 4) \o ToLE(183500, 4) \o <<255, 255, 255, 255>>}

\* the lengths of the streams: cuts in and between the reads of the header, and
\* every 64 bytes of the wheel and sample sections
HeaderEnd == SumSizes(HeaderSteps)
HeaderCuts ==
    {0, 3, 6, 7, 8, 9, 10, 11, 12, 20, 24, 26, 28, 30, 32, 40, 64, 70, 96, 100,
     128, 130, 144, 150, 160, 164, 168, 170, 172, 180, 188, 200, 208, 209, 210,
     212, 220, 240, 300}
MaxBody == 128 * MaxWheels + MaxBlocks * (64 + 32 * MaxWheels)
StreamLens == HeaderCuts \cup {HeaderEnd + 64 * k : k \in 0..(MaxBody \div 64)}

(***************************** the state **********************************)

NewReplay ==
    [raf_version |-> None, lfs_version |-> None, update_interval |-> None,
     short_track_name |-> None, player |-> None, car |-> None, track |-> None,
     config |-> None, weather |-> None, player_flags |-> None,
     num_wheels |-> None, hlvc_legal |-> None, num_splits |-> None,
     splits |-> <<>>, num_gears |-> None,
     static_wheel_info |-> <<>>, data |-> <<>>]

NoBlock == [start |-> -1, end |-> -1, wheels |-> <<>>]

Init ==
    /\ \E n \in StreamLens :
          stream = [len |-> n, sig |-> <<>>, version |-> <<>>, sizes |-> <<>>,
                    fill |-> -1, flags |-> <<>>, splits |-> <<>>]
    /\ pos = 0
    /\ pc = "signature"
    /\ err = NoError
    /\ replay = NewReplay
    /\ header = [header_size |-> 0, block_size |-> 0, wheel_block_size |-> 0,
                 wheel_block_offset |-> 0, num_blocks |-> 0]
    /\ block = NoBlock

\* an exception leaves from_file at the statement at pc, after its read
Fail(type) ==
    /\ pc' = "failed"
    /\ err' = [type |-> type, at |-> pc]
    /\ pos' = pos + Got(pc)

\* the statement at pc has read and from_file goes on to the statement at next
Goto(next) ==
    /\ pc' = next
    /\ err' = err
    /\ pos' = pos + Got(pc)

\* f.read(n) with its result dropped
Skip(label, next) ==
    /\ pc = label
    /\ Goto(next)
    /\ UNCHANGED <<stream, replay, header, block>>

\* buf = f.read(n); struct.unpack(fmt, buf) of floats the model does not keep
ReadFloats(label, next) ==
    /\ pc = label
    /\ IF Unpacks(label) THEN Goto(next) ELSE Fail("struct.error")
    /\ UNCHANGED <<stream, replay, header, block>>

\* the heads of the loops: range(0, num_wheels), range(0, num_blocks)
\* (a loop of one iteration more: range(0, num_wheels + 1))
MoreWheelsOffByOne(k) == k <= replay.num_wheels.v
MoreWheels(k) == k < replay.num_wheels.v
MoreBlocks(k) == k < header.num_blocks

SampleLoop(k) == IF MoreBlocks(k) THEN "data_block" ELSE "return"
StaticLoop(k) == IF MoreWheels(k) THEN "static_wheel" ELSE SampleLoop(0)
DynamicLoop(k) == IF MoreWheels(k) THEN "dynamic_wheel" ELSE "append_block"

(************************** Replay.from_file ******************************)

ReadSignature ==
    /\ pc = "signature"
    /\ IF ~Unpacks(pc)
       THEN Fail("struct.error") /\ UNCHANGED stream
       ELSE \E sig \in Signatures :
              /\ stream' = [stream EXCEPT !.sig = sig]
              /\ IF sig # LFSRAF THEN Fail(Raise("InputError")) ELSE Goto(After(pc))
    /\ UNCHANGED <<replay, header, block>>

SkipGameVersion == Skip("game_version", After("game_version"))

ReadVersion ==
    /\ pc = "version"
    /\ IF ~Unpacks(pc)
       THEN Fail("struct.error") /\ UNCHANGED <<stream, replay>>
       ELSE \E v \in Versions, u \in UpdateIntervals :
              /\ stream' = [stream EXCEPT !.version = <<v, u>>]
              /\ replay' = [replay EXCEPT !.raf_version = PyInt(v),
                                          !.update_interval = PyInt(u)]
              /\ IF v > 2 THEN Fail(Raise("InputError")) ELSE Goto(After(pc))
    /\ UNCHANGED <<header, block>>

SkipReserved == Skip("reserved", After("reserved"))

ReadSizes ==
    /\ pc = "sizes"
    /\ IF ~Unpacks(pc)
       THEN Fail("struct.error") /\ UNCHANGED <<stream, header>>
       ELSE \E buf \in SizesBytes :
              /\ stream' = [stream EXCEPT !.sizes = buf]
              /\ header' = [header_size |-> UnsignedLE(SubSeq(buf, 1, 2)),
                            block_size |-> UnsignedLE(SubSeq(buf, 3, 4)),
                            wheel_block_size |-> UnsignedLE(SubSeq(buf, 5, 6)),
                            wheel_block_offset |-> UnsignedLE(SubSeq(buf, 7, 8)),
                            num_blocks |-> UnsignedLE(SubSeq(buf, 9, 12))]
              /\ Goto(After(pc))
    /\ UNCHANGED <<replay, block>>

\* buf = f.read(n * CHAR); x = ''.join(struct.unpack('>c...c', buf));
\* x = x[:x.find('\x00')], for the field the statement at pc reads.  The n
\* one-character strings unpack returns, joined, are the n bytes read.
ReadString(field, fill) ==
    /\ pc = field
    /\ IF ~Unpacks(pc)
       THEN Fail("struct.error") /\ UNCHANGED <<stream, replay>>
       ELSE /\ stream' = [stream EXCEPT !.fill = fill]
            /\ replay' = [replay EXCEPT ![field] =
                            PyStr(NullTruncate(RawString(StringWidth[field], fill)))]
            /\ Goto(After(pc))
    /\ UNCHANGED <<header, block>>

ReadShortTrackName == \E fill \in Fills : ReadString("short_track_name", fill)
ReadTrackRulerLength == ReadFloats("track_ruler_length", After("track_ruler_length"))
ReadPlayer == ReadString("player", stream.fill)
ReadCar == ReadString("car", stream.fill)
ReadTrack == ReadString("track", stream.fill)
ReadConfig == ReadString("config", stream.fill)
ReadWeather == ReadString("weather", stream.fill)
ReadLfsVersion == ReadString("lfs_version", stream.fill)

\* the four bytes player_flags, num_wheels, hlvc_legal, num_splits, and
\* "if hlvc_legal > 0: replay.player_flags = True if hlvc_legal == 1 else False"
ReadFlags ==
    /\ pc = "flags"
    /\ IF ~Unpacks(pc)
       THEN Fail("struct.error") /\ UNCHANGED <<stream, replay>>
       ELSE \E buf \in FlagsBytes :
              LET hlvc_legal == buf[3] IN
              /\ stream' = [stream EXCEPT !.flags = buf]
              /\ replay' = [replay EXCEPT
                              !.player_flags =
                                  IF hlvc_legal > 0
                                  THEN PyBool(hlvc_legal = 1)
                                  ELSE PyInt(buf[1]),
                              !.num_wheels = PyInt(buf[2]),
                              !.num_splits = PyInt(buf[4])]
              /\ Goto(After(pc))
    /\ UNCHANGED <<header, block>>

\* replay.splits.extend(struct.unpack('<iiii', buf));
\* replay.splits = replay.splits[:replay.num_splits]
ReadSplits ==
    /\ pc = "splits"
    /\ IF ~Unpacks(pc)
       THEN Fail("struct.error") /\ UNCHANGED <<stream, replay>>
       ELSE \E buf \in SplitsBytes :
              LET unpacked == [i \in 1..4 |-> SignedLE32(SubSeq(buf, 4 * i - 3, 4 * i))]
              IN  /\ stream' = [stream EXCEPT !.splits = buf]
                  /\ replay' = [replay EXCEPT !.splits =
                                  PySlice(replay.splits \o unpacked,
                                          replay.num_splits.v)]
                  /\ Goto(After(pc))
    /\ UNCHANGED <<header, block>>

ReadMasses == ReadFloats("masses", After("masses"))

ReadNumGears ==
    /\ pc = "num_gears"
    /\ IF ~Unpacks(pc)
       THEN Fail("struct.error") /\ UNCHANGED replay
       ELSE \E g \in NumGears :
              /\ replay' = [replay EXCEPT !.num_gears = PyInt(g)]
              /\ Goto(After(pc))
    /\ UNCHANGED <<stream, header, block>>

SkipReserved3 == Skip("reserved3", After("reserved3"))
ReadGearRatios == ReadFloats("gear_ratios", After("gear_ratios"))

\* f.read(272 * BYTE), then the head of "for i in range(0, replay.num_wheels)"
SkipPadding == Skip("padding", StaticLoop(0))

\* StaticWheelInfo.from_file: the unpack of the first 48 bytes of the block
ReadStaticWheel ==
    /\ pc = "static_wheel"
    /\ IF ~Unpacks(pc)
       THEN Fail("struct.error")
       ELSE Goto("static_wheel_pad")
    /\ UNCHANGED <<stream, replay, header, block>>

\* StaticWheelInfo.from_file: f.read(80 * BYTE) and the return, then
\* replay.static_wheel_info.append(...) and the head of the loop
SkipStaticWheelPad ==
    /\ pc = "static_wheel_pad"
    /\ replay' = [replay EXCEPT !.static_wheel_info =
                    Append(@, [offset |-> pos - ReadSize("static_wheel")])]
    /\ Goto(StaticLoop(Len(replay.static_wheel_info) + 1))
    /\ UNCHANGED <<stream, header, block>>

\* block = DataBlock.from_file(f), then the head of the loop over the wheels
ReadDataBlock ==
    /\ pc = "data_block"
    /\ IF ~Unpacks(pc)
       THEN Fail("struct.error") /\ UNCHANGED block
       ELSE /\ block' = [start |-> pos, end |-> pos + Got(pc), wheels |-> <<>>]
            /\ Goto(DynamicLoop(0))
    /\ UNCHANGED <<stream, replay, header>>

\* block.wheels.append(DynamicWheelInfo.from_file(f)), then the head of the loop
ReadDynamicWheel ==
    /\ pc = "dynamic_wheel"
    /\ IF ~Unpacks(pc)
       THEN Fail("struct.error") /\ UNCHANGED block
       ELSE /\ block' = [block EXCEPT !.wheels = Append(@, [offset |-> pos])]
            /\ Goto(DynamicLoop(Len(block.wheels) + 1))
    /\ UNCHANGED <<stream, replay, header>>

\* replay.data.append(block), then the head of the loop over the samples
AppendBlock ==
    /\ pc = "append_block"
    /\ replay' = [replay EXCEPT !.data = Append(@, block)]
    /\ Goto(SampleLoop(Len(replay.data) + 1))
    /\ block' = NoBlock
    /\ UNCHANGED <<stream, header>>

\* return replay
Return ==
    /\ pc = "return"
    /\ Goto("done")
    /\ UNCHANGED <<stream, replay, header, block>>

Next ==
    \/ ReadSignature
    \/ SkipGameVersion
    \/ ReadVersion
    \/ SkipReserved
    \/ ReadSizes
    \/ ReadShortTrackName
    \/ ReadTrackRulerLength
    \/ ReadPlayer
    \/ ReadCar
    \/ ReadTrack
    \/ ReadConfig
    \/ ReadWeather
    \/ ReadLfsVersion
    \/ ReadFlags
    \/ ReadSplits
    \/ ReadMasses
    \/ ReadNumGears
    \/ SkipReserved3
    \/ ReadGearRatios
    \/ SkipPadding
    \/ ReadStaticWheel
    \/ SkipStaticWheelPad
    \/ ReadDataBlock
    \/ ReadDynamicWheel
    \/ AppendBlock
    \/ Return

Spec == Init /\ [][Next]_vars

(******************************* claims ***********************************)

Returned == pc = "done"
NumWheels == replay.num_wheels.v
NumSplits == replay.num_splits.v

\* C1: whenever a read of the parse, a read that only skips bytes included, asks
\* for more bytes than remain in the stream, the parse fails there with the
\* stream-exhaustion error (struct.error) and returns no Replay.
C1_ShortReadFails ==
    [][ReadSize(pc) > Remaining => pc' = "failed" /\ err'.type = "struct.error"]_vars

\* the four split entries the stream stores
StoredSplits ==
    [i \in 1..4 |-> SignedLE32(SubSeq(stream.splits, 4 * i - 3, 4 * i))]

\* C2 as stated: every returned Replay has len(splits) == num_splits.
C2_SplitsLenIsNumSplits == Returned => Len(replay.splits) = NumSplits

\* C2 as amended: every returned Replay has len(splits) == min(num_splits, 4), the
\* first min(num_splits, 4) of the four split entries the stream stores.
C2_SplitsLenIsMin ==
    Returned =>
        /\ Len(replay.splits) = Min(NumSplits, 4)
        /\ replay.splits = SubSeq(StoredSplits, 1, Min(NumSplits, 4))

C2_Witness == Returned /\ NumSplits > 4 /\ Len(replay.splits) = 4

\* C3: every returned Replay has len(static_wheel_info) == num_wheels and
\* num_wheels DynamicWheelInfo entries in every sample, each read from the stream
\* right after the one before it (the first right after the sample's fixed fields).
C3_WheelCounts ==
    Returned =>
        /\ Len(replay.static_wheel_info) = NumWheels
        /\ \A i \in 1..Len(replay.data) :
              LET b == replay.data[i] IN
              /\ Len(b.wheels) = NumWheels
              /\ \A j \in 1..Len(b.wheels) :
                    b.wheels[j].offset = b.end + (j - 1) * CalcSize(FmtDynamicWheel)

C3_Witness ==
    Returned /\ NumWheels = 2 /\ Len(replay.data) = 2
        /\ Len(replay.data[2].wheels) = 2

\* the n raw characters up to the first null byte, all n when there is none
UpToNull(raw) ==
    IF \E i \in 1..Len(raw) : raw[i] = 0
    THEN SubSeq(raw, 1, (CHOOSE i \in 1..Len(raw) :
                            raw[i] = 0 /\ \A j \in 1..(i - 1) : raw[j] # 0) - 1)
    ELSE raw

\* C4: every fixed-width string field the parse has read equals the n raw
\* characters read, cut at the first null byte, and all n characters when the n
\* bytes hold no null byte.
C4_StringsUpToNull ==
    \A field \in StringFields :
        replay[field].t = "str" =>
            replay[field].v = UpToNull(RawString(StringWidth[field], stream.fill))

\* the tri-state of the raw hlvc code: None for 0, True for 1, False for the rest
DecodeHlvc(code) == IF code = 0 THEN None ELSE PyBool(code = 1)

\* C5: hlvc_legal of a returned Replay is the tri-state decoding of the raw hlvc
\* code byte: None for 0, True for 1, False for 2 and every other value above 0.
C5_HlvcLegalDecoded == Returned => replay.hlvc_legal = DecodeHlvc(stream.flags[3])

\* C6: player_flags of a returned Replay equals the driver-aid flag byte read from
\* the stream (the first of the four bytes), whatever the hlvc code is.
C6_PlayerFlagsKept == Returned => PyEq(replay.player_flags, PyInt(stream.flags[1]))

\* C7: when the first 6 bytes are not 'LFSRAF' the parse fails with the
\* invalid-signature error (the InputError raised at the signature check), returns
\* no Replay and reads nothing more: the cursor stays at offset 6.
C7_InvalidSignature ==
    (stream.sig # <<>> /\ stream.sig # LFSRAF) =>
        /\ pc = "failed"
        /\ err = [type |-> "InputError", at |-> "signature"]
        /\ pos = 6

\* C8: with a valid signature the parse fails with the unsupported-version error
\* (the InputError raised at the version check) exactly when raf_version > 2, with
\* the cursor at offset 10, before the sizes are read; with raf_version 0, 1 or 2
\* only an exhausted stream makes the parse fail.
C8_UnsupportedVersion ==
    stream.version # <<>> =>
        /\ (pc = "failed" /\ err = [type |-> "InputError", at |-> "version"])
              <=> stream.version[1] > 2
        /\ stream.version[1] > 2 => pos = 10 /\ stream.sizes = <<>>
        /\ (stream.version[1] <= 2 /\ pc = "failed") =>
              err.type = "struct.error" /\ pos = stream.len

\* the DataBlocks read so far: those of replay.data and the one being filled
BlocksRead == replay.data \o (IF block = NoBlock THEN <<>> ELSE <<block>>)

C10_BytesConsumed ==
    Returned =>
        /\ pos = 512 + 128 * NumWheels + header.num_blocks * (64 + 32 * NumWheels)
        /\ \A i \in 1..Len(replay.data) :
              replay.data[i].start
                  = 512 + 128 * NumWheels + (i - 1) * (64 + 32 * NumWheels)

====
